---------------------------- MODULE Spec2Model ----------------------------
(***************************************************************************)
(* The blacksmith service broker (src/broker.go): the five lifecycle       *)
(* operations of Broker over the Vault (the Operation Ledger) and BOSH     *)
(* (the Deployment Gateway).                                               *)
(*                                                                         *)
(* Each handler of Broker is one action, taken atomically: the callers of  *)
(* one instance serialize their lifecycle calls.  The outcomes of the      *)
(* collaborators (BOSH reachable or not, a Vault write failing, a template *)
(* failing to render) are inputs of the action, drawn with \E.             *)
(***************************************************************************)
EXTENDS Integers, Sequences, FiniteSets, TLC

(* ------------------------------ bounds -------------------------------- *)

\* The number of tasks BOSH accepts in one behaviour.
MaxTasks == 2

(* ------------------------------ values -------------------------------- *)

Instances == {"i1", "i2"}

\* Go's nil: an absent error.
Nil == "nil"

\* Nil credentials.
NoCreds == << >>

\* Identifiers are strings, modelled as sequences of characters, so that
\* fmt.Sprintf("%s/%s", a, b) is a concatenation and not a pair.
S1 == <<"s1">>
P1 == <<"p1">>
IDs == {S1, P1}

\* What ReadServices(dir...) finds on disk: one service with one plan.
Services ==
  { [ID |-> S1, Plans |-> { [ID |-> P1, Name |-> "small"] }] }

\* The request details Provision is called with.
ProvisionDetails == [ServiceID : IDs, PlanID : IDs]

(* The errors the handlers return, by their message. *)
ErrPlanNotFound    == "plan not found"
ErrManifest        == "BOSH deployment manifest generation failed"
ErrDeployment      == "backend BOSH deployment failed"
ErrVaultTracking   == "Vault tracking failed"
ErrUnrecognized    == "unrecognized backend BOSH task"
ErrInvalidState    == "invalid state type"
ErrNotImplemented  == "not implemented"
\* The error of the BOSH client itself, which Deprovision passes on.
ErrBOSH            == "bosh client error"

\* Identifiers with the separator of the plan keys in them, and a catalog
\* that registers one.
X    == <<"x">>
S1P1 == <<"s1", "/", "p1">>
P1X  == <<"p1", "/", "x">>
ServicesSeparator ==
  { [ID |-> S1, Plans |-> { [ID |-> P1X, Name |-> "small"] }] }

\* The catalogs the plan lookup is examined with, and the request details.
Catalogs       == {Services, ServicesSeparator}
CatalogDetails == [ServiceID : {S1, P1, X, S1P1, P1X},
                   PlanID    : {S1, P1, X, S1P1, P1X}]

VARIABLES
  Catalog, \* Broker.Catalog: the services read at startup
  Plans,   \* Broker.Plans: key -> Plan
  vault,   \* the secrets of the Vault: instanceID -> tracked operation
  tasks,   \* the tasks of the BOSH director, by task ID (1..Len(tasks))
  ret,     \* the most recent call of a handler and what it returned
  shield,  \* the targets and the jobs of SHIELD, by name
  lo       \* a call of LastOperation in flight: where it is, what it read

vars == <<Catalog, Plans, vault, tasks, ret, shield, lo>>

(* ------------------------------ catalog ------------------------------- *)

Sprintf(a, b) == a \o <<"/">> \o b

ReadServices(ss) ==
  LET pairs == { <<s, p>> \in ss \X UNION { t.Plans : t \in ss } :
                   p \in s.Plans }
      keys  == { Sprintf(sp[1].ID, sp[2].ID) : sp \in pairs }
  IN  [ k \in keys |->
          (CHOOSE sp \in pairs : Sprintf(sp[1].ID, sp[2].ID) = k)[2] ]

FindPlanKey(planID, serviceID) == Sprintf(planID, serviceID)

FindPlan(planID, serviceID) ==
  LET key == FindPlanKey(planID, serviceID)
  IN  IF key \in DOMAIN Plans
      THEN [plan |-> Plans[key], err |-> Nil]
      ELSE [plan |-> [ID |-> <<>>, Name |-> ""], err |-> ErrPlanNotFound]

(* ------------------------------- Vault -------------------------------- *)

\* What the Vault holds for an instance it tracks nothing for: State gives
\* Go's zero values for it.
NoSecret == [typ |-> "", taskID |-> 0, creds |-> NoCreds]

\* Vault.State(instanceID): the tracked operation, or the zero values and
\* an error when the Vault holds nothing for the instance.
State(instanceID) ==
  [typ |-> vault[instanceID].typ, taskID |-> vault[instanceID].taskID,
   creds |-> vault[instanceID].creds,
   err |-> IF vault[instanceID] = NoSecret THEN "not found" ELSE Nil]

\* Vault.Track(instanceID, typ, taskID, creds), when the write succeeds: the
\* secret of the instance is overwritten.
Track(instanceID, typ, taskID, creds) ==
  [vault EXCEPT ![instanceID] = [typ |-> typ, taskID |-> taskID, creds |-> creds]]

\* Vault.Clear(instanceID), when the delete succeeds.
Clear(instanceID) ==
  [vault EXCEPT ![instanceID] = NoSecret]

\* A call of the Vault succeeds, or fails and leaves the Vault as it was.
VaultOutcomes == {Nil, "vault error"}

(* -------------------------------- BOSH -------------------------------- *)

\* BOSH.CreateDeployment(manifest), accepted: a new task, its ID the next one.
CreateDeployment(name, creds) ==
  Append(tasks, [description |-> "create deployment", deployment |-> name,
                 creds |-> creds, state |-> "processing"])

\* BOSH.DeleteDeployment(name), accepted.
DeleteDeployment(name) ==
  Append(tasks, [description |-> "delete deployment", deployment |-> name,
                 creds |-> NoCreds, state |-> "processing"])

\* The director works on a task: it ends done or in error.
TaskProgress(id) ==
  /\ id \in 1..Len(tasks)
  /\ tasks[id].state = "processing"
  /\ \E s \in {"done", "error"} : tasks' = [tasks EXCEPT ![id].state = s]
  /\ UNCHANGED <<Catalog, Plans, vault, ret, shield, lo>>

(* ------------------------------ handlers ------------------------------ *)

Return(op, instanceID) ==
  [op |-> op, instanceID |-> instanceID, err |-> Nil, state |-> "",
   creds |-> NoCreds, async |-> FALSE, polled |-> 0, submits |-> 0,
   tracks |-> 0, clears |-> 0, log |-> "", calls |-> << >>]

\* No call of LastOperation in flight.
NoCall ==
  [pc |-> "idle", instanceID |-> "", typ |-> "", taskID |-> 0,
   taskState |-> "", cleared |-> NoSecret]

\* The Broker after ReadServices read the services ss.
Started(ss) ==
  /\ Catalog = ss
  /\ Plans = ReadServices(ss)

Init ==
  /\ Started(Services)
  /\ vault = [i \in Instances |-> NoSecret]
  /\ tasks = << >>
  /\ ret = Return("", "")
  /\ shield = [targets |-> {}, jobs |-> {}]
  /\ lo = NoCall

(* Provision: the errors it returns at each stage. *)
ProvisionInfoError       == ErrManifest
ProvisionManifestError   == ErrManifest
ProvisionDeploymentError == ErrDeployment
\* Faulty variant: Provision drops what Vault.Track returns, as Deprovision does.
ProvisionTrackError_Swallowed(err) == Nil
ProvisionTrackError(err) == IF err # Nil THEN ErrVaultTracking ELSE Nil

\* GenManifest(plan, params), when the template renders: the credentials it
\* generates, those of no earlier manifest that BOSH accepted.
GenManifest == <<"password", Len(tasks) + 1>>

\* params["name"]: the name of the deployment in the manifest.
DeploymentName(plan, instanceID) == <<plan.Name, "-", instanceID>>

\* Faulty variant: the ID tracked is not the ID of the task BOSH returned.
TrackedTaskID_Unsubmitted(submitted) == Len(submitted) + 1

\* task.ID of the task CreateDeployment or DeleteDeployment returned, as
\* the handlers pass it to Vault.Track.
TrackedTaskID(submitted) == Len(submitted)

\* The secrets after Provision called Vault.Track with outcome err.
ProvisionTrack(instanceID, taskID, creds, err) ==
  IF err = Nil THEN Track(instanceID, "provision", taskID, creds) ELSE vault

Provision(instanceID, details) ==
  LET found == FindPlan(details.ServiceID, details.PlanID)
      r     == [Return("Provision", instanceID) EXCEPT !.async = TRUE]
  IN
  /\ UNCHANGED <<Catalog, Plans, shield, lo>>
  /\ \/ \* FindPlan fails
        /\ found.err # Nil
        /\ ret' = [r EXCEPT !.err = found.err, !.log = "failed"]
        /\ UNCHANGED <<vault, tasks>>
     \/ \* BOSH.GetInfo fails
        /\ found.err = Nil
        /\ ret' = [r EXCEPT !.err = ProvisionInfoError,
                            !.log = "failed to get info from BOSH"]
        /\ UNCHANGED <<vault, tasks>>
     \/ \* GenManifest fails
        /\ found.err = Nil
        /\ ret' = [r EXCEPT !.err = ProvisionManifestError,
                            !.log = "failed to generate manifest"]
        /\ UNCHANGED <<vault, tasks>>
     \/ \* BOSH.CreateDeployment fails
        /\ found.err = Nil
        /\ ret' = [r EXCEPT !.err = ProvisionDeploymentError, !.submits = 1,
                            !.log = "failed to create deployment"]
        /\ UNCHANGED <<vault, tasks>>
     \/ \* BOSH.CreateDeployment returns a task; Vault.Track succeeds or fails
        /\ found.err = Nil
        /\ Len(tasks) < MaxTasks
        /\ \E trackErr \in VaultOutcomes :
             LET creds     == GenManifest
                 submitted == CreateDeployment(
                                DeploymentName(found.plan, instanceID), creds)
             IN  /\ tasks' = submitted
                 /\ vault' = ProvisionTrack(instanceID, TrackedTaskID(submitted),
                                            creds, trackErr)
                 /\ ret' = [r EXCEPT !.err = ProvisionTrackError(trackErr),
                                     !.submits = 1, !.tracks = 1,
                                     !.log = IF trackErr # Nil
                                             THEN "failed to track deployment"
                                             ELSE "started"]

\* Faulty variant: Deprovision returns the failure of Vault.Track, as Provision does.
DeprovisionTrackError_Returned(err) == IF err # Nil THEN ErrVaultTracking ELSE Nil

\* Deprovision drops what Vault.Track returns.
DeprovisionTrackError(err) == Nil

\* Faulty variant: Deprovision keeps the task ID the secret had.
DeprovisionTrack_KeepsTask(instanceID, taskID, err) ==
  IF err = Nil
  THEN Track(instanceID, "deprovision", vault[instanceID].taskID, NoCreds)
  ELSE vault

\* The secrets after Deprovision called Vault.Track with outcome err.
DeprovisionTrack(instanceID, taskID, err) ==
  IF err = Nil THEN Track(instanceID, "deprovision", taskID, NoCreds) ELSE vault

\* Faulty variant: Deprovision tracks the zero task of the failed DeleteDeployment.
DeprovisionRejected_Tracked(instanceID) ==
  Track(instanceID, "deprovision", 0, NoCreds)

\* The secrets after BOSH.DeleteDeployment failed: Deprovision has returned.
DeprovisionRejected(instanceID) == vault

Deprovision(instanceID) ==
  LET r == [Return("Deprovision", instanceID) EXCEPT !.async = TRUE]
  IN
  /\ UNCHANGED <<Catalog, Plans, shield, lo>>
  /\ \/ \* BOSH.DeleteDeployment fails
        /\ ret' = [r EXCEPT !.err = ErrBOSH, !.submits = 1]
        /\ vault' = DeprovisionRejected(instanceID)
        /\ UNCHANGED tasks
     \/ \* BOSH.DeleteDeployment returns a task; Vault.Track succeeds or fails
        /\ Len(tasks) < MaxTasks
        /\ \E trackErr \in VaultOutcomes :
             LET submitted == DeleteDeployment(<<instanceID>>)
             IN  /\ tasks' = submitted
                 /\ vault' = DeprovisionTrack(instanceID,
                                              TrackedTaskID(submitted), trackErr)
                 /\ ret' = [r EXCEPT !.err = DeprovisionTrackError(trackErr),
                                     !.submits = 1, !.tracks = 1]

\* Faulty variant: a provision task in error is reported as still in progress.
ProvisionState_ErrorIgnored(taskState) ==
  IF taskState = "done" THEN "succeeded" ELSE "in progress"

\* LastOperation, typ == "provision": the state it reports for a task state.
ProvisionState(taskState) ==
  IF taskState = "done" THEN "succeeded"
  ELSE IF taskState = "error" THEN "failed"
  ELSE "in progress"

\* LastOperation, typ == "deprovision": the state it reports for a task state.
DeprovisionState(taskState) ==
  IF taskState = "done" THEN "succeeded"
  ELSE IF taskState = "error" THEN "failed"
  ELSE "in progress"

\* Faulty variant: only a deprovision task that is done clears the secret.
DeprovisionClears_DoneOnly(taskState) == taskState = "done"

\* Faulty variant: no deprovision task state clears the secret.
DeprovisionClears_Never(taskState) == FALSE

\* Faulty variant: a deprovision task still in progress clears the secret too.
DeprovisionClears_Always(taskState) == TRUE

\* LastOperation, typ == "deprovision": the task states on which it calls
\* Vault.Clear.
DeprovisionClears(taskState) == taskState \in {"done", "error"}

\* Faulty variant: a provision task that is done clears the secret.
ProvisionClears_OnDone(taskState) == taskState = "done"

\* LastOperation, typ == "provision": whether it calls Vault.Clear.
ProvisionClears(taskState) == FALSE

\* Faulty variant: an unknown typ is reported as a failed operation, without error.
InvalidStateReturn_Failed(r) == [r EXCEPT !.state = "failed"]

\* Faulty variant: an unknown typ is reported as a failed operation, beside the error.
InvalidStateReturn_FailedState(r) ==
  [r EXCEPT !.err = ErrInvalidState, !.state = "failed"]

\* LastOperation with neither typ: the error and the state it returns.
InvalidStateReturn(r) == [r EXCEPT !.err = ErrInvalidState]

\* LastOperation with neither typ: the task it polls (none).
InvalidStatePolled == 0

\* BOSH.GetTask(taskID) fails when BOSH is unreachable or knows no such task.
GetTaskKnown(taskID) == taskID \in 1..Len(tasks)

\* Faulty variant: a failed poll of a deprovision task clears the secret.
GetTaskFailed_Clears(instanceID) ==
  IF vault[instanceID].typ = "deprovision" THEN Clear(instanceID) ELSE vault

\* LastOperation when BOSH.GetTask fails: the secrets as it returns.
GetTaskFailed(instanceID) == vault

\* Faulty variant: LastOperation submits the teardown again.
LastOperationSubmits_Teardown(instanceID) ==
  IF Len(tasks) < MaxTasks THEN DeleteDeployment(<<instanceID>>) ELSE tasks

\* The tasks of BOSH as LastOperation returns: GetTask is the only call of
\* BOSH it makes.
LastOperationSubmits(instanceID) == tasks

LastOperation(instanceID) ==
  LET st == State(instanceID)
      r  == Return("LastOperation", instanceID)
  IN
  /\ UNCHANGED <<Catalog, Plans, shield, lo>>
  /\ tasks' = LastOperationSubmits(instanceID)
  /\ \/ \* typ is "provision" or "deprovision" and BOSH.GetTask fails
        /\ st.typ \in {"provision", "deprovision"}
        /\ ret' = [r EXCEPT !.err = ErrUnrecognized, !.polled = st.taskID]
        /\ vault' = GetTaskFailed(instanceID)
     \/ \* typ is "provision" and BOSH.GetTask returns the task
        /\ st.typ = "provision"
        /\ GetTaskKnown(st.taskID)
        /\ LET taskState == tasks[st.taskID].state
           IN  \E clearErr \in VaultOutcomes :
                 /\ ret' = [r EXCEPT !.state = ProvisionState(taskState),
                                     !.polled = st.taskID,
                                     !.clears = IF ProvisionClears(taskState)
                                                THEN 1 ELSE 0]
                 /\ vault' = IF ProvisionClears(taskState) /\ clearErr = Nil
                             THEN Clear(instanceID) ELSE vault
     \/ \* typ is "deprovision" and BOSH.GetTask returns the task
        /\ st.typ = "deprovision"
        /\ GetTaskKnown(st.taskID)
        /\ LET taskState == tasks[st.taskID].state
           IN  \E clearErr \in VaultOutcomes :
                 /\ ret' = [r EXCEPT !.state = DeprovisionState(taskState),
                                     !.polled = st.taskID,
                                     !.clears = IF DeprovisionClears(taskState)
                                                THEN 1 ELSE 0]
                 /\ vault' = IF DeprovisionClears(taskState) /\ clearErr = Nil
                             THEN Clear(instanceID) ELSE vault
     \/ \* any other typ, that of no secret among them
        /\ st.typ \notin {"provision", "deprovision"}
        /\ ret' = [InvalidStateReturn(r) EXCEPT !.polled = InvalidStatePolled]
        /\ UNCHANGED vault

(* LastOperation statement by statement, for the calls that run while other
   handlers run: the read of the Vault, the poll of BOSH, and the rest (the
   delete of the secret and the return).  lo keeps what the call read, and
   on return the secret that its Vault.Clear removed. *)

\* typ, taskID, _, _ := b.Vault.State(instanceID)
LastOperationState(instanceID) ==
  LET st == State(instanceID)
  IN  /\ lo.pc \in {"idle", "returned"}
      /\ lo' = [NoCall EXCEPT !.pc = "state", !.instanceID = instanceID,
                              !.typ = st.typ, !.taskID = st.taskID]
      /\ UNCHANGED <<Catalog, Plans, vault, tasks, ret, shield>>

\* task, err := b.BOSH.GetTask(taskID), or the return for any other typ
LastOperationGetTask ==
  LET r == Return("LastOperation", lo.instanceID)
  IN
  /\ lo.pc = "state"
  /\ UNCHANGED <<Catalog, Plans, shield>>
  /\ tasks' = LastOperationSubmits(lo.instanceID)
  /\ \/ /\ lo.typ \in {"provision", "deprovision"}
        /\ ret' = [r EXCEPT !.err = ErrUnrecognized, !.polled = lo.taskID]
        /\ vault' = GetTaskFailed(lo.instanceID)
        /\ lo' = [lo EXCEPT !.pc = "returned"]
     \/ /\ lo.typ \in {"provision", "deprovision"}
        /\ GetTaskKnown(lo.taskID)
        /\ lo' = [lo EXCEPT !.pc = "task", !.taskState = tasks[lo.taskID].state]
        /\ UNCHANGED <<vault, ret>>
     \/ /\ lo.typ \notin {"provision", "deprovision"}
        /\ ret' = [InvalidStateReturn(r) EXCEPT !.polled = InvalidStatePolled]
        /\ lo' = [lo EXCEPT !.pc = "returned"]
        /\ UNCHANGED vault

\* The branches on task.State: Vault.Clear where the branch calls it, and
\* the return.
LastOperationReturn ==
  LET r      == Return("LastOperation", lo.instanceID)
      clears == IF lo.typ = "provision" THEN ProvisionClears(lo.taskState)
                ELSE DeprovisionClears(lo.taskState)
      state  == IF lo.typ = "provision" THEN ProvisionState(lo.taskState)
                ELSE DeprovisionState(lo.taskState)
  IN
  /\ lo.pc = "task"
  /\ UNCHANGED <<Catalog, Plans, tasks, shield>>
  /\ \E clearErr \in VaultOutcomes :
       LET cleared == clears /\ clearErr = Nil
       IN  /\ ret' = [r EXCEPT !.state = state, !.polled = lo.taskID,
                               !.clears = IF clears THEN 1 ELSE 0]
           /\ vault' = IF cleared THEN Clear(lo.instanceID) ELSE vault
           /\ lo' = [lo EXCEPT !.pc = "returned",
                               !.cleared = IF cleared THEN vault[lo.instanceID]
                                           ELSE NoSecret]

\* Faulty variant: Bind returns a binding without the credentials.
BindCredentials_Dropped(st) == NoCreds

\* Bind: the credentials of the binding, and the error, it returns for what
\* Vault.State gave.
BindCredentials(st) == st.creds
BindError(st)       == Nil

Bind(instanceID) ==
  LET st == State(instanceID)
  IN  /\ ret' = [Return("Bind", instanceID) EXCEPT
                   !.creds = BindCredentials(st), !.err = BindError(st)]
      /\ UNCHANGED <<Catalog, Plans, vault, tasks, shield, lo>>

Unbind(instanceID) ==
  /\ ret' = Return("Unbind", instanceID)
  /\ UNCHANGED <<Catalog, Plans, vault, tasks, shield, lo>>

\* Faulty variant: Update returns no error.
UpdateError_None == Nil

UpdateError == ErrNotImplemented

Update(instanceID) ==
  /\ ret' = [Return("Update", instanceID) EXCEPT !.err = UpdateError]
  /\ UNCHANGED <<Catalog, Plans, vault, tasks, shield, lo>>

(* ------------------------------- SHIELD ------------------------------- *)
(* src/shield/shield.go: NetworkClient over the SHIELD client.  A target and
   a job are known by their names; the job of a schedule backs up the
   target of that schedule.                                                *)

ErrShield == "shield client error"

\* The details of the instances that get a backup schedule.
ScheduleDetails == {d \in ProvisionDetails : d.ServiceID = S1}

\* join(s...): strings.Join(s, ":").
join(kind, serviceID, planID, instanceID) ==
  <<kind, ":">> \o serviceID \o <<":">> \o planID \o <<":", instanceID>>

\* The outcomes of one call of the SHIELD client: done, an error, or no
\* error with a response that is not OK and nothing done.
ShieldOutcomes == {"ok", "error", "refused"}

\* After a call with outcome o that adds or removes the name n.
Added(set, n, o)   == IF o = "ok" THEN set \cup {n} ELSE set
Removed(set, n, o) == IF o = "ok" THEN set \ {n} ELSE set

CreateSchedule(instanceID, details) ==
  LET target == join("targets", details.ServiceID, details.PlanID, instanceID)
      job    == join("jobs", details.ServiceID, details.PlanID, instanceID)
      r      == Return("CreateSchedule", instanceID)
  IN
  /\ UNCHANGED <<Catalog, Plans, vault, tasks, lo>>
  /\ \/ \* CreateTarget fails
        /\ ret' = [r EXCEPT !.err = ErrShield, !.calls = <<"CreateTarget">>]
        /\ UNCHANGED shield
     \/ \* CreateTarget returns the target; CreateJob fails or returns
        \E o \in {"ok", "error"} :
          /\ ret' = [r EXCEPT !.err = IF o = "error" THEN ErrShield ELSE Nil,
                              !.calls = <<"CreateTarget", "CreateJob">>]
          /\ shield' = [targets |-> shield.targets \cup {target},
                        jobs    |-> Added(shield.jobs, job, o)]

\* DeleteSchedule when FindJob returned an error: what it returns.
FindJobError == ErrShield

\* The calls DeleteSchedule makes once FindJob returned the job, in order.
DeleteCalls == <<"FindJob", "DeleteTarget", "DeleteJob">>

DeleteSchedule(instanceID, details) ==
  LET target == join("targets", details.ServiceID, details.PlanID, instanceID)
      job    == join("jobs", details.ServiceID, details.PlanID, instanceID)
      r      == Return("DeleteSchedule", instanceID)
  IN
  /\ UNCHANGED <<Catalog, Plans, vault, tasks, lo>>
  /\ \/ \* FindJob fails: SHIELD is unreachable or has no job of the name
        /\ ret' = [r EXCEPT !.err = FindJobError, !.calls = <<"FindJob">>]
        /\ UNCHANGED shield
     \/ \* FindJob returns the job; DeleteTarget fails
        /\ job \in shield.jobs
        /\ ret' = [r EXCEPT !.err = ErrShield,
                            !.calls = SubSeq(DeleteCalls, 1, 2)]
        /\ UNCHANGED shield
     \/ \* DeleteTarget returns no error; DeleteJob fails or returns none
        /\ job \in shield.jobs
        /\ \E ot \in {"ok", "refused"}, oj \in ShieldOutcomes :
             /\ ret' = [r EXCEPT !.err = IF oj = "error" THEN ErrShield ELSE Nil,
                                 !.calls = DeleteCalls]
             /\ shield' = [targets |-> Removed(shield.targets, target, ot),
                           jobs    |-> Removed(shield.jobs, job, oj)]

(* ------------------------------- claims ------------------------------- *)

Kinds == {"provision", "deprovision"}

\* The instance a BOSH task was submitted for: the last part of the name of
\* its deployment.
TaskInstance(task) == task.deployment[Len(task.deployment)]

\* The description of the BOSH task a tracked operation of kind typ submits.
SubmissionOf(typ) ==
  IF typ = "provision" THEN "create deployment" ELSE "delete deployment"

IsProvision(i)     == \E d \in ProvisionDetails : Provision(i, d)

(* C1: every secret of the Vault carries the ID of a task that BOSH accepted,
   of the matching kind (create deployment for provision, delete deployment
   for deprovision) and for that instance; and a secret is written only in
   a step in which BOSH accepted a task, with that task's ID. *)
C1_Tracked ==
  \A i \in Instances :
    vault[i] # NoSecret =>
      /\ vault[i].typ \in Kinds
      /\ vault[i].taskID \in 1..Len(tasks)
      /\ tasks[vault[i].taskID].description = SubmissionOf(vault[i].typ)
      /\ TaskInstance(tasks[vault[i].taskID]) = i

C1_WriteStep ==
  \A i \in Instances :
    (vault'[i] # vault[i] /\ vault'[i] # NoSecret) =>
      /\ Len(tasks') = Len(tasks) + 1
      /\ vault'[i].taskID = Len(tasks')

C1_LedgerOnlyAfterSubmission == []C1_Tracked /\ [][C1_WriteStep]_vars

C1_Witness ==
  /\ ret.op = "Deprovision" /\ ret.err = Nil
  /\ vault[ret.instanceID].typ = "deprovision"
  /\ vault[ret.instanceID].taskID = Len(tasks)
  /\ \E j \in Instances : vault[j].typ = "provision"

(* The task state LastOperation(i) polls, when the director knows the task. *)
Polled(i) == tasks[vault[i].taskID].state

\* LastOperation(i) took the step and BOSH.GetTask did not fail in it.
PollSucceeded(i) ==
  /\ LastOperation(i)
  /\ vault[i].typ \in Kinds
  /\ ret'.err # ErrUnrecognized

(* C2: when the secret has typ provision or deprovision and the poll of the
   task succeeds, LastOperation returns no error and the state that the
   polled task state alone decides: done gives succeeded, error gives
   failed, anything else gives in progress, for both kinds. *)
C2_StateFromTaskState ==
  [][ \A i \in Instances :
        PollSucceeded(i) =>
          /\ ret'.err = Nil
          /\ ret'.state = CASE Polled(i) = "done"  -> "succeeded"
                            [] Polled(i) = "error" -> "failed"
                            [] OTHER               -> "in progress" ]_vars

C2_Witness ==
  /\ ret.op = "LastOperation" /\ ret.err = Nil
  /\ ret.state = "failed"
  /\ vault[ret.instanceID].typ = "provision"
  /\ tasks[ret.polled].state = "error"

\* The polled task of a deprovision has ended.
TerminalDeprovision(i) ==
  /\ vault[i].typ = "deprovision"
  /\ Polled(i) \in {"done", "error"}

(* C3, as stated: LastOperation deletes the secret exactly when its typ is
   deprovision and the polled task state is done or error, and otherwise
   leaves the Vault unchanged. *)
C3_DeletesExactlyOnTerminalDeprovision ==
  [][ \A i \in Instances :
        PollSucceeded(i) =>
          IF TerminalDeprovision(i)
          THEN vault' = [vault EXCEPT ![i] = NoSecret]
          ELSE vault' = vault ]_vars

(* C3, amended: LastOperation calls Vault.Clear exactly when the typ is
   deprovision and the polled task state is done or error; the secret is
   gone when that delete succeeds and unchanged when it fails; in every
   other case the Vault is unchanged. *)
C3_ClearsExactlyOnTerminalDeprovision ==
  [][ \A i \in Instances :
        LastOperation(i) =>
          /\ ret'.clears = IF PollSucceeded(i) /\ TerminalDeprovision(i)
                           THEN 1 ELSE 0
          /\ \/ vault' = vault
             \/ /\ ret'.clears = 1
                /\ vault' = [vault EXCEPT ![i] = NoSecret] ]_vars

C3_Witness ==
  /\ ret.op = "LastOperation" /\ ret.clears = 1
  /\ ret.state = "failed"
  /\ vault[ret.instanceID] = NoSecret
  /\ tasks[ret.polled].description = "delete deployment"

(* C4: Bind on an instance the Vault holds no secret for fails with an
   error (InstanceNotFound). *)
C4_BindWithoutSecretFails ==
  (ret.op = "Bind" /\ vault[ret.instanceID] = NoSecret) => ret.err # Nil

(* C5, as stated: Bind returns the credentials of the secret, and while a
   secret exists no lifecycle call other than a new Provision changes the
   credentials that Provision stored in it. *)
C5_CredentialsNeverMutated ==
  /\ [](ret.op = "Bind" => ret.creds = vault[ret.instanceID].creds)
  /\ [][ \A i \in Instances :
           (/\ vault[i].typ = "provision"
            /\ vault'[i] # NoSecret
            /\ ~IsProvision(i)) => vault'[i].creds = vault[i].creds ]_vars

(* C5, amended: whenever the secret has typ provision, Bind returns exactly
   the credentials generated by the Provision call that wrote it (those of
   the manifest of its task), however often it is called; a Deprovision
   whose Vault write succeeds replaces the secret by one without
   credentials, and Bind then returns none; Bind does not modify the
   Vault, and LastOperation changes a secret only by deleting it. *)
C5_BindReturnsProvisionCredentials ==
  /\ [](ret.op = "Bind" =>
          IF vault[ret.instanceID].typ = "provision"
          THEN /\ ret.creds = tasks[vault[ret.instanceID].taskID].creds
               /\ ret.creds # NoCreds
          ELSE ret.creds = NoCreds)
  /\ [][ \A i \in Instances :
           /\ Bind(i) => vault' = vault
           /\ LastOperation(i) => \A j \in Instances :
                                    vault'[j] \in {vault[j], NoSecret}
           /\ (Deprovision(i) /\ vault' # vault) =>
                vault'[i].creds = NoCreds ]_vars

C5_Witness ==
  /\ ret.op = "Bind"
  /\ vault[ret.instanceID].typ = "provision"
  /\ ret.creds = <<"password", 2>>
  /\ \E j \in Instances : vault[j].typ = "deprovision"

\* A step in which BOSH accepted a task and the Vault write for it failed.
TrackFailed(i) ==
  /\ Len(tasks') = Len(tasks) + 1
  /\ vault'[i].taskID # Len(tasks')

(* C6: when Vault.Track fails after BOSH accepted the task, Provision
   returns the Vault tracking error, while Deprovision returns asynchronous
   acceptance and no error; in both the task stays submitted and the Vault
   is as it was before the call. *)
C6_TrackFailureAsymmetry ==
  [][ \A i \in Instances :
        /\ (IsProvision(i) /\ TrackFailed(i)) =>
             /\ ret'.err = ErrVaultTracking
             /\ vault' = vault
        /\ (Deprovision(i) /\ TrackFailed(i)) =>
             /\ ret'.err = Nil /\ ret'.async
             /\ vault' = vault ]_vars

C6_Witness ==
  /\ ret.op = "Deprovision" /\ ret.err = Nil /\ ret.tracks = 1
  /\ vault[ret.instanceID].typ = "provision"
  /\ Len(tasks) = 2
  /\ tasks[2].description = "delete deployment"

(* C7: when BOSH rejects the teardown, Deprovision returns that error and
   does not call Vault.Track: the Vault is the same before and after. *)
C7_RejectedTeardownWritesNothing ==
  [][ \A i \in Instances :
        (Deprovision(i) /\ Len(tasks') = Len(tasks)) =>
          /\ ret'.err = ErrBOSH
          /\ ret'.tracks = 0
          /\ vault' = vault ]_vars

C7_Witness ==
  /\ ret.op = "Deprovision" /\ ret.err = ErrBOSH
  /\ vault[ret.instanceID].typ = "provision"

(* C8: Provision submits at most one deployment and writes the Vault at
   most once; when it returns no error it did exactly one of each and the
   secret of the instance is {provision, the ID of the task of that
   submission, the credentials generated in the call}; when it fails at the
   plan lookup, at GetInfo or at GenManifest it submits and writes
   nothing. *)
C8_ProvisionOneSubmissionOneWrite ==
  [][ \A i \in Instances :
        IsProvision(i) =>
          /\ Len(tasks') \in {Len(tasks), Len(tasks) + 1}
          /\ ret'.submits <= 1 /\ ret'.tracks <= 1
          /\ \A j \in Instances \ {i} : vault'[j] = vault[j]
          /\ ret'.err = Nil =>
               /\ Len(tasks') = Len(tasks) + 1
               /\ ret'.submits = 1 /\ ret'.tracks = 1
               /\ vault'[i] = [typ    |-> "provision",
                               taskID |-> Len(tasks'),
                               creds  |-> tasks'[Len(tasks')].creds]
               /\ vault'[i].creds # NoCreds
          /\ ret'.err \in {ErrPlanNotFound, ErrManifest} =>
               /\ tasks' = tasks /\ vault' = vault
               /\ ret'.submits = 0 /\ ret'.tracks = 0 ]_vars

C8_Witness ==
  /\ ret.op = "Provision" /\ ret.err = Nil
  /\ vault[ret.instanceID] = [typ |-> "provision", taskID |-> 2,
                              creds |-> <<"password", 2>>]

(* C9: LastOperation on an instance with no secret (or one of unknown typ)
   returns the invalid state error, polls no task and leaves the Vault
   unchanged. *)
C9_NoSecretIsInvalidState ==
  [][ \A i \in Instances :
        (LastOperation(i) /\ vault[i].typ \notin Kinds) =>
          /\ ret'.err = ErrInvalidState
          /\ ret'.polled = 0
          /\ vault' = vault ]_vars

C9_Witness ==
  /\ ret.op = "LastOperation" /\ ret.err = ErrInvalidState
  /\ vault[ret.instanceID] = NoSecret
  /\ \E t \in 1..Len(tasks) : TaskInstance(tasks[t]) = ret.instanceID

(* C10, as stated: LastOperation returns no error for a missing secret; it
   reports the state failed. *)
C10_NoSecretReportsFailed ==
  [][ \A i \in Instances :
        (LastOperation(i) /\ vault[i].typ \notin Kinds) =>
          /\ ret'.err = Nil
          /\ ret'.state = "failed" ]_vars

(* C10, amended: for a missing secret LastOperation returns an error and,
   with it, the empty state: neither failed nor any other reported state,
   so the poller receives an error and no terminal state. *)
C10_NoSecretReportsNoState ==
  [][ \A i \in Instances :
        (LastOperation(i) /\ vault[i].typ \notin Kinds) =>
          /\ ret'.err # Nil
          /\ ret'.state \notin {"succeeded", "failed", "in progress"} ]_vars

C10_Witness ==
  /\ ret.op = "LastOperation" /\ ret.err # Nil /\ ret.state = ""
  /\ ret.polled = 0
  /\ \E j \in Instances : j # ret.instanceID /\ vault[j].typ \in Kinds

(* C11: when BOSH.GetTask fails, LastOperation returns the unrecognized
   task error, having polled the tracked task, and leaves the Vault
   unchanged, for both kinds: an error is the only outcome of LastOperation
   on a secret of either kind when the poll fails, and the next poll reads
   the same taskID. *)
C11_FailedPollKeepsSecret ==
  [][ \A i \in Instances :
        (LastOperation(i) /\ vault[i].typ \in Kinds /\ ret'.err # Nil) =>
          /\ ret'.err = ErrUnrecognized
          /\ ret'.state = ""
          /\ ret'.polled = vault[i].taskID
          /\ ret'.clears = 0
          /\ vault' = vault ]_vars

C11_Witness ==
  /\ ret.op = "LastOperation" /\ ret.err = ErrUnrecognized
  /\ vault[ret.instanceID].typ = "deprovision"
  /\ vault[ret.instanceID].taskID = ret.polled
  /\ tasks[ret.polled].state = "done"

(* C12: LastOperation submits nothing to BOSH: the tasks are the same
   before and after it, and the only task it polls is the tracked one. *)
C12_LastOperationSubmitsNothing ==
  [][ \A i \in Instances :
        LastOperation(i) =>
          /\ tasks' = tasks
          /\ ret'.submits = 0
          /\ ret'.polled \in {0, vault[i].taskID} ]_vars

C12_Witness ==
  /\ ret.op = "LastOperation" /\ ret.state = "in progress"
  /\ ret.polled = 2
  /\ Len(tasks) = 2

(* C13: a secret is deleted only by a LastOperation of that instance that
   polled the task of that secret, a deprovision, and found it done or in
   error; a provision secret is never deleted. *)
C13_DeletedOnlyAfterTerminal ==
  [][ \A i \in Instances :
        (vault[i] # NoSecret /\ vault'[i] = NoSecret) =>
          /\ LastOperation(i)
          /\ vault[i].typ = "deprovision"
          /\ ret'.polled = vault[i].taskID
          /\ Polled(i) \in {"done", "error"}
          /\ ret'.state \in {"succeeded", "failed"}
          /\ ret'.err = Nil ]_vars

C13_Witness ==
  /\ ret.op = "LastOperation" /\ ret.state = "succeeded" /\ ret.clears = 1
  /\ vault[ret.instanceID] = NoSecret
  /\ \E j \in Instances :
       /\ vault[j].typ = "provision"
       /\ tasks[vault[j].taskID].state = "done"

(* C14: when BOSH.GetInfo fails, Provision returns an error other than the
   one it returns when GenManifest fails. *)
C14_InfoErrorDistinct ==
  (ret.op = "Provision" /\ ret.log = "failed to get info from BOSH") =>
    /\ ret.err # Nil
    /\ ret.err # ProvisionManifestError

(* C17: Update returns the not implemented error in every state and for
   every instance, and changes neither the Vault nor the tasks of BOSH. *)
C17_UpdateNotImplemented ==
  [][ \A i \in Instances :
        Update(i) =>
          /\ ret'.err = ErrNotImplemented
          /\ ~ret'.async
          /\ vault' = vault
          /\ tasks' = tasks ]_vars

C17_Witness ==
  /\ ret.op = "Update" /\ ret.err = ErrNotImplemented
  /\ vault[ret.instanceID].typ = "deprovision"
  /\ tasks[vault[ret.instanceID].taskID].state = "processing"

\* The request details name a pair that the catalog registers, and its plan.
Registered(d) ==
  \E sv \in Catalog : sv.ID = d.ServiceID /\ \E pl \in sv.Plans : pl.ID = d.PlanID

RegisteredPlan(d) ==
  CHOOSE pl \in UNION { sv.Plans : sv \in { t \in Catalog : t.ID = d.ServiceID } } :
    pl.ID = d.PlanID

(* C15: for every registered (serviceID, planID) the plan lookup of
   Provision finds that pair's plan, and for every pair that is not
   registered Provision fails with the plan not found error. *)
C15_LookupByPair ==
  [][ \A i \in Instances, d \in CatalogDetails :
        Provision(i, d) =>
          IF Registered(d)
          THEN /\ ret'.err # ErrPlanNotFound
               /\ FindPlan(d.ServiceID, d.PlanID).plan = RegisteredPlan(d)
          ELSE ret'.err = ErrPlanNotFound ]_vars

\* The place of a call among the calls of the last handler, 0 when it was
\* not made.
CallIndex(calls, c) ==
  IF \E k \in 1..Len(calls) : calls[k] = c
  THEN CHOOSE k \in 1..Len(calls) : calls[k] = c
  ELSE 0

(* C16: DeleteSchedule deletes the job first and its target second, removes
   both when it returns no error, and returns no error when the job is
   already missing. *)
C16_DeleteJobThenTarget ==
  [][ \A i \in Instances, d \in ScheduleDetails :
        DeleteSchedule(i, d) =>
          LET job    == join("jobs", d.ServiceID, d.PlanID, i)
              target == join("targets", d.ServiceID, d.PlanID, i)
          IN  /\ job \notin shield.jobs => ret'.err = Nil
              /\ CallIndex(ret'.calls, "DeleteTarget") # 0 =>
                   /\ CallIndex(ret'.calls, "DeleteJob") # 0
                   /\ CallIndex(ret'.calls, "DeleteJob")
                        < CallIndex(ret'.calls, "DeleteTarget")
              /\ ret'.err = Nil =>
                   /\ job \notin shield'.jobs
                   /\ target \notin shield'.targets ]_vars

(* C18, as stated: the LastOperation(i) that follows a Deprovision(i) which
   returned asynchronous acceptance polls the teardown task that this
   Deprovision submitted, never an earlier provision task of i. *)
C18_PollsReturnedTeardown ==
  [][ \A i \in Instances :
        (/\ ret.op = "Deprovision" /\ ret.instanceID = i
         /\ ret.async /\ ret.err = Nil
         /\ LastOperation(i)) =>
          /\ ret'.polled = Len(tasks)
          /\ tasks[ret'.polled].description = "delete deployment" ]_vars

(* C18, amended: a Deprovision(i) that returned asynchronous acceptance has
   either written the secret [deprovision, the task it submitted] or, its
   Vault write having failed, left the secret of i as it was; no step other
   than a Provision, Deprovision or LastOperation of i changes the secret of
   i; and LastOperation(i) polls the task of the secret it reads, which for
   typ deprovision is a teardown task of i.  So the next LastOperation(i)
   classifies the teardown task of that Deprovision exactly when its Vault
   write succeeded, and otherwise whatever the secret held before. *)
C18_PollsTrackedTask ==
  [][ \A i \in Instances :
        /\ (Deprovision(i) /\ ret'.err = Nil) =>
             /\ Len(tasks') = Len(tasks) + 1
             /\ tasks'[Len(tasks')].description = "delete deployment"
             /\ \/ vault'[i] = [typ |-> "deprovision", taskID |-> Len(tasks'),
                                creds |-> NoCreds]
                \/ vault'[i] = vault[i]
        /\ ~(IsProvision(i) \/ Deprovision(i) \/ LastOperation(i)) =>
             vault'[i] = vault[i]
        /\ LastOperation(i) =>
             /\ ret'.polled = vault[i].taskID
             /\ vault[i].typ = "deprovision" =>
                  /\ tasks[ret'.polled].description = "delete deployment"
                  /\ TaskInstance(tasks[ret'.polled]) = i
                  /\ ret'.err = Nil =>
                       ret'.state = DeprovisionState(tasks[ret'.polled].state)
      ]_vars

C18_Witness ==
  /\ ret.op = "LastOperation" /\ ret.err = Nil /\ ret.state = "in progress"
  /\ ret.polled = 2
  /\ vault[ret.instanceID].typ = "deprovision"
  /\ tasks[1].description = "create deployment"
  /\ TaskInstance(tasks[1]) = ret.instanceID
  /\ tasks[2].description = "delete deployment"

\* The secret of the instance is the one the call in flight read.
AsRead(call) ==
  /\ vault[call.instanceID].typ = call.typ
  /\ vault[call.instanceID].taskID = call.taskID

(* C19, as stated: whatever runs between the steps of a LastOperation, the
   secret its Vault.Clear removes is the deprovision secret that it read. *)
C19_DeletesRecordRead ==
  (lo.pc = "returned" /\ lo.cleared # NoSecret) =>
    /\ lo.cleared.typ = "deprovision"
    /\ lo.cleared.typ = lo.typ
    /\ lo.cleared.taskID = lo.taskID

(* C19, amended: LastOperation calls Vault.Clear exactly when the secret it
   read has typ deprovision and the task it polled for it is done or in
   error; the delete is by instance ID, so it removes whatever secret the
   instance has at that moment.  That is the secret read when no Provision
   or Deprovision of the instance wrote between the read and the delete
   (no other step changes the secret of the instance while the call is in
   flight); a secret written in between is the one deleted. *)
C19_DeletesCurrentRecord ==
  [][ /\ \A i \in Instances :
           LastOperationState(i) => (vault' = vault /\ AsRead(lo'))
      /\ LastOperationGetTask => vault' = vault
      /\ LastOperationReturn =>
           /\ ret'.clears = IF lo.typ = "deprovision"
                               /\ lo.taskState \in {"done", "error"}
                            THEN 1 ELSE 0
           /\ \/ /\ vault' = vault
                 /\ lo'.cleared = NoSecret
              \/ /\ ret'.clears = 1
                 /\ vault' = [vault EXCEPT ![lo.instanceID] = NoSecret]
                 /\ lo'.cleared = vault[lo.instanceID]
                 /\ AsRead(lo) => /\ lo'.cleared.typ = "deprovision"
                                  /\ lo'.cleared.taskID = lo.taskID
      /\ (/\ lo.pc \in {"state", "task"}
          /\ ~IsProvision(lo.instanceID)
          /\ ~Deprovision(lo.instanceID)
          /\ ~LastOperationReturn) =>
           vault'[lo.instanceID] = vault[lo.instanceID] ]_vars

C19_Witness ==
  /\ lo.pc = "returned"
  /\ lo.cleared = [typ |-> "deprovision", taskID |-> lo.taskID, creds |-> NoCreds]
  /\ vault[lo.instanceID] = NoSecret
  /\ ret.op = "LastOperation" /\ ret.clears = 1 /\ ret.polled = 1
  /\ Len(tasks) = 2
  /\ tasks[2].description = "create deployment"
  /\ TaskInstance(tasks[2]) = lo.instanceID

\* The secret of i tracks the teardown task t.
Teardown(i, t) ==
  /\ vault[i].typ = "deprovision"
  /\ vault[i].taskID = t

\* LastOperation(i) has just reported the end of the teardown task t and
\* the secret is gone.
ReportedGone(i, t) ==
  /\ ret.op = "LastOperation" /\ ret.instanceID = i /\ ret.polled = t
  /\ ret.err = Nil /\ ret.state \in {"succeeded", "failed"}
  /\ vault[i] = NoSecret

\* A later Provision or Deprovision of i wrote over the secret.
Overwritten(i, t) == vault[i] # NoSecret /\ ~Teardown(i, t)

\* LastOperation(i) polls the task of a deprovision secret, BOSH answers,
\* and the delete of the secret succeeds.
LastOperationCleared(i) ==
  /\ LastOperation(i)
  /\ vault[i].typ = "deprovision"
  /\ vault'[i] = NoSecret

(* C20, as stated: a LastOperation that reports the end (succeeded or
   failed) of a deprovision leaves the secret gone, so that the end is
   reported by one poll only: the LastOperation of the instance that
   follows it returns the invalid-state error. *)
C20_TerminalReportedOnce ==
  [][ \A i \in Instances :
        /\ (/\ LastOperation(i)
            /\ vault[i].typ = "deprovision"
            /\ ret'.state \in {"succeeded", "failed"}) => vault'[i] = NoSecret
        /\ (/\ ret.op = "LastOperation" /\ ret.instanceID = i
            /\ ret.clears = 1
            /\ LastOperation(i)) => ret'.err = ErrInvalidState ]_vars

(* C20, amended: when the teardown task ends, the caller keeps polling,
   BOSH answers and the delete of the secret succeeds at last, a secret
   [deprovision, t] leads to a LastOperation that reports succeeded or
   failed for t with the secret gone, unless a new Provision or Deprovision
   writes over it first.  Every poll of the ended task reports its end and
   calls Vault.Clear; the polls whose delete fails leave the secret, so the
   end is reported once more by the next poll, and it is the one poll whose
   delete succeeds that is the last to report it: from then on, until a
   Provision or Deprovision writes a secret, LastOperation returns the
   invalid-state error and changes nothing. *)
C20_ReportedUntilDeleted ==
  /\ \A i \in Instances, t \in 1..MaxTasks :
       Teardown(i, t) ~> (ReportedGone(i, t) \/ Overwritten(i, t))
  /\ [][ \A i \in Instances :
           LastOperation(i) =>
             /\ (vault[i].typ = "deprovision" /\ ret'.err = Nil) =>
                  IF tasks[vault[i].taskID].state \in {"done", "error"}
                  THEN /\ ret'.state \in {"succeeded", "failed"}
                       /\ ret'.clears = 1
                       /\ \/ vault' = vault
                          \/ vault' = [vault EXCEPT ![i] = NoSecret]
                  ELSE /\ ret'.state = "in progress"
                       /\ vault' = vault
             /\ vault[i] = NoSecret =>
                  /\ ret'.err = ErrInvalidState
                  /\ vault' = vault ]_vars

C20_Witness ==
  /\ ret.op = "LastOperation" /\ ret.state = "succeeded" /\ ret.clears = 1
  /\ vault[ret.instanceID] = NoSecret
  /\ tasks[ret.polled].description = "delete deployment"
  /\ tasks[ret.polled].state = "done"
  /\ Len(tasks) = MaxTasks

Next ==
  \/ \E id \in 1..MaxTasks : TaskProgress(id)
  \/ \E i \in Instances, d \in ProvisionDetails : Provision(i, d)
  \/ \E i \in Instances : Deprovision(i)
  \/ \E i \in Instances : LastOperation(i)
  \/ \E i \in Instances : Bind(i)
  \/ \E i \in Instances : Unbind(i)
  \/ \E i \in Instances : Update(i)

Spec == Init /\ [][Next]_vars

\* The plan lookup: the Broker started on any of the catalogs, and Provision
\* called with any of the request details.
InitCatalog ==
  /\ \E ss \in Catalogs : Started(ss)
  /\ vault = [i \in Instances |-> NoSecret]
  /\ tasks = << >>
  /\ ret = Return("", "")
  /\ shield = [targets |-> {}, jobs |-> {}]
  /\ lo = NoCall

NextCatalog ==
  \/ \E id \in 1..MaxTasks : TaskProgress(id)
  \/ \E i \in Instances, d \in CatalogDetails : Provision(i, d)

SpecCatalog == InitCatalog /\ [][NextCatalog]_vars

\* The backup schedules: the callers of the Broker register and delete them.
NextShield ==
  \/ \E i \in Instances, d \in ScheduleDetails : CreateSchedule(i, d)
  \/ \E i \in Instances, d \in ScheduleDetails : DeleteSchedule(i, d)

SpecShield == Init /\ [][NextShield]_vars

\* The instance whose handlers run at the same time.
Contended == "i1"

\* LastOperation of one instance, statement by statement, while Provision
\* and Deprovision of the same instance run: the Broker takes no lock.
NextConcurrent ==
  \/ \E id \in 1..MaxTasks : TaskProgress(id)
  \/ \E d \in ProvisionDetails : Provision(Contended, d)
  \/ Deprovision(Contended)
  \/ LastOperationState(Contended)
  \/ LastOperationGetTask
  \/ LastOperationReturn

SpecConcurrent == Init /\ [][NextConcurrent]_vars

\* The handlers of one instance, under a caller that keeps polling: the
\* director ends every task, and for a deprovision secret a poll that BOSH
\* answers and whose delete of the secret succeeds comes at last.
NextPolling ==
  \/ \E id \in 1..MaxTasks : TaskProgress(id)
  \/ \E d \in ProvisionDetails : Provision(Contended, d)
  \/ Deprovision(Contended)
  \/ LastOperation(Contended)

SpecPolling ==
  /\ Init /\ [][NextPolling]_vars
  /\ \A id \in 1..MaxTasks : WF_vars(TaskProgress(id))
  /\ WF_vars(LastOperationCleared(Contended))

=============================================================================
